---- MODULE Spec2Model ----
(***************************************************************************)
(* Model of src/DHT.go: the routing tables (DHT.buckets) of a set of       *)
(* peers, the pure helpers (calculateDistance, findOwnNode, containsKey,   *)
(* findNearestNodes, hashValue) and the recursive setValue / getValue      *)
(* traversals, run on an explicit call stack.                              *)
(*                                                                         *)
(* Strings are sequences of characters.  An identifier is a non-empty      *)
(* string of lower-case hexadecimal digits, held as the sequence of its    *)
(* digit values (0..15): Go compares such strings bytewise, and for the    *)
(* characters 0-9a-f the byte order is the order of the digit values.      *)
(***************************************************************************)
EXTENDS Integers, Sequences, FiniteSets, TLC

(***************************************************************************)
(* Strings and numbers                                                     *)
(***************************************************************************)
Zeros(n) == [i \in 1..n |-> 0]

\* the empty string ""
EmptyStr == << >>

\* Go's s1 < s2 on strings: bytewise lexicographic, a proper prefix is less
RECURSIVE StrLess(_, _)
StrLess(s, t) ==
  IF t = << >> THEN FALSE
  ELSE IF s = << >> THEN TRUE
  ELSE IF Head(s) # Head(t) THEN Head(s) < Head(t)
  ELSE StrLess(Tail(s), Tail(t))

\* x XOR y on naturals, bit by bit
RECURSIVE BitXor(_, _)
BitXor(x, y) ==
  IF x = 0 THEN y
  ELSE IF y = 0 THEN x
  ELSE ((x + y) % 2) + 2 * BitXor(x \div 2, y \div 2)

\* left-pad a digit sequence with zeros to n digits
PadTo(s, n) == IF Len(s) >= n THEN s ELSE Zeros(n - Len(s)) \o s

Max2(x, y) == IF x > y THEN x ELSE y

\* big.Int.Xor on two non-negative numbers given by their hex digits
BigXor(s, t) ==
  LET n == Max2(Len(s), Len(t))
      ps == PadTo(s, n)
      pt == PadTo(t, n)
  IN [i \in 1..n |-> BitXor(ps[i], pt[i])]

\* a non-negative number given by its hex digits, without leading zeros
RECURSIVE Strip(_)
Strip(s) ==
  IF s = << >> THEN s
  ELSE IF Head(s) = 0 THEN Strip(Tail(s))
  ELSE s

\* n1 < n2 for two stripped digit sequences (unsigned, any width)
NatLess(n1, n2) ==
  \/ Len(n1) < Len(n2)
  \/ Len(n1) = Len(n2) /\ StrLess(n1, n2)

NatLeq(n1, n2) == n1 = n2 \/ NatLess(n1, n2)

\* hex digits of a Go int on a 64-bit target
WordDigits == 16

\* big.Int.Int64 followed by int(): the low 64 bits of the number, read as a
\* two's complement word (kept as its 16 hex digits)
Int64(s) ==
  LET p == PadTo(s, WordDigits)
  IN SubSeq(p, Len(p) - WordDigits + 1, Len(p))

\* int comparisons on two's complement words
WordNeg(w) == w[1] >= 8

WordLess(w1, w2) ==
  IF WordNeg(w1) # WordNeg(w2) THEN WordNeg(w1)
  ELSE StrLess(w1, w2)

WordLeq(w1, w2) == w1 = w2 \/ WordLess(w1, w2)

WordZero == Zeros(WordDigits)

\* x OR y on naturals, bit by bit
RECURSIVE BitOr(_, _)
BitOr(x, y) ==
  IF x = 0 THEN y
  ELSE IF y = 0 THEN x
  ELSE Max2(x % 2, y % 2) + 2 * BitOr(x \div 2, y \div 2)

\* calculateDistance with Or in the place of Xor
calculateDistance_Or(id1, id2) ==
  LET n == Max2(Len(id1), Len(id2))
      p1 == PadTo(id1, n)
      p2 == PadTo(id2, n)
  IN Int64([i \in 1..n |-> BitOr(p1[i], p2[i])])

\* lines 129-136
calculateDistance(id1, id2) == Int64(BigXor(id1, id2))

(***************************************************************************)
(* The identifiers and keys of the model                                   *)
(***************************************************************************)
Id0F == <<0, 15>>
Id05 == <<0, 5>>
Id0A == <<0, 10>>
Id00 == <<0, 0>>
Id5 == <<5>>
\* two 32-digit (128-bit, digest-shaped) identifiers: 2^124 and 2^63
IdWide == <<1>> \o Zeros(31)
IdSign == Zeros(16) \o <<8>> \o Zeros(15)
\* a third digest, the image of every string that is not its own digest
IdDigest == Zeros(31) \o <<7>>

Ids == {Id0F, Id05, Id0A, Id00, IdWide, IdSign}

\* lines 138-141.  MD5 itself is not computed: hashValue is a fixed table
\* from strings to 32-digit digests in which IdWide and IdSign are their own
\* digests, so that the code behind the integrity check can run at all.
hashValue(value) ==
  IF value \in {IdWide, IdSign} THEN value ELSE IdDigest

(***************************************************************************)
(* Peers and routing tables                                                *)
(***************************************************************************)
\* Peer.id of the peers A, B, C, D, E (lines 16-20); a *Peer is its index
\* here.  E is the number of B written without its leading zero.
PeerId == <<Id0F, Id05, Id0A, IdWide, Id5>>

Peers == DOMAIN PeerId

\* the nil *Peer
Nil == 0

\* lines 30-32: a DHT without buckets
NewDHT == << >>

\* lines 241-246
min(x, y) == IF x < y THEN x ELSE y

\* findOwnNode that passes over empty buckets
RECURSIVE findOwnNode_FirstNonEmpty(_)
findOwnNode_FirstNonEmpty(buckets) ==
  IF buckets = << >> THEN Nil
  ELSE IF Head(buckets) # << >> THEN Head(buckets)[1]
  ELSE findOwnNode_FirstNonEmpty(Tail(buckets))

\* lines 87-92, on the buckets of a DHT
findOwnNode(buckets) ==
  IF Len(buckets) = 0 \/ Len(buckets[1]) = 0 THEN Nil
  ELSE buckets[1][1]

\* lines 75-85
containsKey(buckets, key) ==
  \E b \in 1..Len(buckets) :
    \E n \in 1..Len(buckets[b]) : PeerId[buckets[b][n]] = key

\* lines 102-105: the nodes of all buckets, in bucket order
RECURSIVE allNodes(_)
allNodes(buckets) ==
  IF buckets = << >> THEN << >>
  ELSE Head(buckets) \o allNodes(Tail(buckets))

\* byDistance without the comparison of the ids at equal distances
byDistance_NoTieBreak(p1, p2, key) ==
  WordLess(calculateDistance(PeerId[p1], key),
           calculateDistance(PeerId[p2], key))

\* lines 109-116: the comparison handed to the sort
byDistance(p1, p2, key) ==
  LET distanceA == calculateDistance(PeerId[p1], key)
      distanceB == calculateDistance(PeerId[p2], key)
  IN IF distanceA # distanceB THEN WordLess(distanceA, distanceB)
     ELSE StrLess(PeerId[p1], PeerId[p2])

\* x put into a sorted sequence after every entry it is not less than
RECURSIVE InsertStable(_, _, _)
InsertStable(sorted, x, key) ==
  IF sorted = << >> THEN <<x>>
  ELSE IF byDistance(x, Head(sorted), key) THEN <<x>> \o sorted
  ELSE <<Head(sorted)>> \o InsertStable(Tail(sorted), x, key)

\* lines 222-239: sort.SliceStable under byDistance
RECURSIVE sortPeerSlice(_, _)
sortPeerSlice(nodes, key) ==
  IF nodes = << >> THEN << >>
  ELSE InsertStable(sortPeerSlice(SubSeq(nodes, 1, Len(nodes) - 1), key),
                    nodes[Len(nodes)], key)

\* lines 118-124: the sorted nodes that are no farther than the own node
RECURSIVE noFarther(_, _, _)
noFarther(sortedNodes, key, distanceToKey) ==
  IF sortedNodes = << >> THEN << >>
  ELSE LET node == Head(sortedNodes)
           rest == noFarther(Tail(sortedNodes), key, distanceToKey)
       IN IF WordLeq(calculateDistance(PeerId[node], key), distanceToKey)
          THEN <<node>> \o rest
          ELSE rest

\* findNearestNodes that, without an own node, returns the nearest nodes
\* unfiltered instead of the empty list
findNearestNodes_NoOwn(buckets, key) ==
  LET ownNode == findOwnNode(buckets)
      sortedNodes == sortPeerSlice(allNodes(buckets), key)
  IN IF ownNode = Nil THEN SubSeq(sortedNodes, 1, min(2, Len(sortedNodes)))
     ELSE LET distanceToKey == calculateDistance(PeerId[ownNode], key)
              nearestNodes == noFarther(sortedNodes, key, distanceToKey)
          IN SubSeq(nearestNodes, 1, min(2, Len(nearestNodes)))

\* lines 94-127
findNearestNodes(buckets, key) ==
  LET ownNode == findOwnNode(buckets)
  IN IF ownNode = Nil THEN << >>
     ELSE LET distanceToKey == calculateDistance(PeerId[ownNode], key)
              sortedNodes == sortPeerSlice(allNodes(buckets), key)
              nearestNodes == noFarther(sortedNodes, key, distanceToKey)
          IN SubSeq(nearestNodes, 1, min(2, Len(nearestNodes)))

(***************************************************************************)
(* State                                                                   *)
(***************************************************************************)
VARIABLES
  tbl,      \* tbl[p]: the buckets of the dht of peer p (Peer.dht.buckets)
  stack,    \* the active calls of setValue / getValue, outermost first
  phase,    \* "idle", "running", or "crashed" (the goroutine stack overflowed)
  ret,      \* the string returned by the getValue call that returned last
  hist,     \* the finished outermost calls with their results
  invoked,  \* the dhts entered by nested calls of the current outermost call
  left,     \* the number of outermost calls the client may still issue
  args,     \* the arguments handed to a helper called on its own
  out,      \* the result of that helper
  parked    \* the stack of a second goroutine while the first one runs

vars == <<tbl, stack, phase, ret, hist, invoked, left, args, out, parked>>

(***************************************************************************)
(* Bounds                                                                  *)
(***************************************************************************)
\* buckets per table and nodes per bucket of the tables handed to the helpers
MaxBuckets == 2
MaxBucketLen == 2
\* outermost calls per run on a linked overlay, and on the overlay of main
MaxOps == 2
MaxDriverOps == 3

\* Within one traversal the operation and the key are the same in every
\* frame, and the tables do not change: a dht that is entered while an
\* earlier call on it is still active repeats that call's nested call for
\* ever.  A stack deeper than the number of dhts therefore only arises in
\* unbounded recursion, which Go ends by a fatal stack overflow.
StackLimit == Cardinality(Peers) + 2

Values == {EmptyStr, <<118>>}
Keys == {IdWide, IdSign, Id05, Id00}

Frame(op, d, key, value) ==
  [op |-> op, d |-> d, key |-> key, value |-> value,
   pc |-> "entry", nodes |-> << >>, i |-> 0]

(***************************************************************************)
(* Calls and returns                                                       *)
(***************************************************************************)
\* the frame on top of the stack
top == stack[Len(stack)]

\* the top frame, changed to cur, calls op on the dht of peer q
Call(cur, q) ==
  IF Len(stack) >= StackLimit
  THEN /\ phase' = "crashed"
       /\ UNCHANGED <<stack, ret, hist, invoked>>
  ELSE /\ stack' = [stack EXCEPT ![Len(stack)] = cur]
                     \o <<Frame(cur.op, q, cur.key, cur.value)>>
       /\ invoked' = Append(invoked, q)
       /\ UNCHANGED <<phase, ret, hist>>

\* the top frame returns r
Return(r) ==
  IF Len(stack) = 1
  THEN /\ stack' = << >>
       /\ phase' = "idle"
       /\ hist' = Append(hist, [op |-> top.op, d |-> top.d, key |-> top.key,
                                value |-> top.value, res |-> r,
                                calls |-> invoked])
       /\ ret' = IF top.op = "get" THEN r ELSE ret
       /\ UNCHANGED invoked
  ELSE /\ stack' = SubSeq(stack, 1, Len(stack) - 1)
       /\ ret' = IF top.op = "get" THEN r ELSE ret
       /\ UNCHANGED <<phase, hist, invoked>>

(***************************************************************************)
(* setValue, lines 34-56                                                   *)
(***************************************************************************)
\* setValueLoop that reports whether there was a nearest node to store on
setValueLoop_Downstream(cur) ==
  IF cur.i < Len(cur.nodes)
  THEN Call([cur EXCEPT !.i = cur.i + 1], cur.nodes[cur.i + 1])
  ELSE Return(cur.nodes # << >>)

\* lines 50-55: the loop over nearestNodes, up to its next call or the return
setValueLoop(cur) ==
  IF cur.i < Len(cur.nodes)
  THEN Call([cur EXCEPT !.i = cur.i + 1], cur.nodes[cur.i + 1])
  ELSE Return(TRUE)

\* setValueEnter without the comparison of the key with its hash
setValueEnter_NoCheck ==
  /\ phase = "running"
  /\ top.op = "set"
  /\ top.pc = "entry"
  /\ LET key == top.key
         ownNode == findOwnNode(tbl[top.d])
     IN IF ownNode # Nil /\ containsKey(tbl[ownNode], key) THEN Return(TRUE)
        ELSE IF ownNode # Nil THEN Call([top EXCEPT !.pc = "own"], ownNode)
        ELSE setValueLoop([top EXCEPT !.pc = "loop",
                                      !.nodes = findNearestNodes(tbl[top.d], key)])
  /\ UNCHANGED <<tbl, left, args, out, parked>>

\* setValueEnter that looks for the key in the table it is called on, not in
\* the table of the own node
setValueEnter_OwnTable ==
  /\ phase = "running"
  /\ top.op = "set"
  /\ top.pc = "entry"
  /\ LET key == top.key
         ownNode == findOwnNode(tbl[top.d])
     IN IF key # hashValue(key) THEN Return(FALSE)
        ELSE IF ownNode # Nil /\ containsKey(tbl[top.d], key) THEN Return(TRUE)
        ELSE IF ownNode # Nil THEN Call([top EXCEPT !.pc = "own"], ownNode)
        ELSE setValueLoop([top EXCEPT !.pc = "loop",
                                      !.nodes = findNearestNodes(tbl[top.d], key)])
  /\ UNCHANGED <<tbl, left, args, out, parked>>

\* lines 35-50: from the entry to the first nested call or the return
setValueEnter ==
  /\ phase = "running"
  /\ top.op = "set"
  /\ top.pc = "entry"
  /\ LET key == top.key
         ownNode == findOwnNode(tbl[top.d])
     IN IF key # hashValue(key) THEN Return(FALSE)
        ELSE IF ownNode # Nil /\ containsKey(tbl[ownNode], key) THEN Return(TRUE)
        ELSE IF ownNode # Nil THEN Call([top EXCEPT !.pc = "own"], ownNode)
        ELSE setValueLoop([top EXCEPT !.pc = "loop",
                                      !.nodes = findNearestNodes(tbl[top.d], key)])
  /\ UNCHANGED <<tbl, left, args, out, parked>>

\* lines 47-55: a nested call has returned; its result is dropped
setValueForward ==
  /\ phase = "running"
  /\ top.op = "set"
  /\ top.pc \in {"own", "loop"}
  /\ IF top.pc = "own"
     THEN setValueLoop([top EXCEPT !.pc = "loop",
                                   !.nodes = findNearestNodes(tbl[top.d], top.key)])
     ELSE setValueLoop(top)
  /\ UNCHANGED <<tbl, left, args, out, parked>>

(***************************************************************************)
(* getValue, lines 58-73                                                   *)
(***************************************************************************)
\* getValueLoop that walks nearestNodes from its end
getValueLoop_Reverse(cur) ==
  IF cur.i < Len(cur.nodes)
  THEN Call([cur EXCEPT !.i = cur.i + 1], cur.nodes[Len(cur.nodes) - cur.i])
  ELSE Return(EmptyStr)

\* lines 65-72: the loop over nearestNodes, up to its next call or the return
getValueLoop(cur) ==
  IF cur.i < Len(cur.nodes)
  THEN Call([cur EXCEPT !.i = cur.i + 1], cur.nodes[cur.i + 1])
  ELSE Return(EmptyStr)

\* getValueEnter with a findNearestNodes that sorts the buckets themselves,
\* not a copy of their nodes
getValueEnter_InPlace ==
  /\ phase = "running"
  /\ top.op = "get"
  /\ top.pc = "entry"
  /\ LET ownNode == findOwnNode(tbl[top.d])
     IN IF ownNode # Nil /\ containsKey(tbl[ownNode], top.key)
        THEN /\ Call([top EXCEPT !.pc = "own"], ownNode)
             /\ UNCHANGED tbl
        ELSE /\ getValueLoop([top EXCEPT !.pc = "loop",
                                         !.nodes = findNearestNodes(tbl[top.d], top.key)])
             /\ tbl' = [tbl EXCEPT ![top.d] =
                         [b \in DOMAIN @ |-> sortPeerSlice(@[b], top.key)]]
  /\ UNCHANGED <<left, args, out, parked>>

\* lines 59-66: from the entry to the first nested call or the return
getValueEnter ==
  /\ phase = "running"
  /\ top.op = "get"
  /\ top.pc = "entry"
  /\ LET ownNode == findOwnNode(tbl[top.d])
     IN IF ownNode # Nil /\ containsKey(tbl[ownNode], top.key)
        THEN Call([top EXCEPT !.pc = "own"], ownNode)
        ELSE getValueLoop([top EXCEPT !.pc = "loop",
                                      !.nodes = findNearestNodes(tbl[top.d], top.key)])
  /\ UNCHANGED <<tbl, left, args, out, parked>>

\* lines 61 and 66-72: a nested call has returned ret
getValueForward ==
  /\ phase = "running"
  /\ top.op = "get"
  /\ top.pc \in {"own", "loop"}
  /\ IF top.pc = "own" THEN Return(ret)
     ELSE IF ret # EmptyStr THEN Return(ret)
     ELSE getValueLoop(top)
  /\ UNCHANGED <<tbl, left, args, out, parked>>

(***************************************************************************)
(* The client                                                              *)
(***************************************************************************)
Begin(op, d, key, value) ==
  /\ phase = "idle"
  /\ left > 0
  /\ left' = left - 1
  /\ stack' = <<Frame(op, d, key, value)>>
  /\ phase' = "running"
  /\ invoked' = << >>
  /\ UNCHANGED <<tbl, ret, hist, args, out, parked>>

\* the peers of the linked overlays: A, B and D
LinkPeers == {1, 2, 4}

\* a client that works on one dht and one key: d.setValue(key, value) or
\* d.getValue(key)
ClientCall ==
  \E op \in {"set", "get"}, d \in LinkPeers, key \in Keys, value \in Values :
    /\ op = "get" => value = EmptyStr
    /\ hist # << >> => d = hist[1].d /\ key = hist[1].key
    /\ Begin(op, d, key, value)

\* lines 176-192: main calls setValue and getValue on any node with any key
DriverCall ==
  \E op \in {"set", "get"}, d \in Peers, key \in Keys, value \in Values :
    /\ op = "get" => value = EmptyStr
    /\ Begin(op, d, key, value)

\* two goroutines call d.setValue(key, value) with the same arguments; the
\* first one runs, the second one is parked
Spawn ==
  \E d \in LinkPeers, key \in {k \in Keys : k = hashValue(k)}, value \in Values :
    /\ phase = "idle"
    /\ left = 2
    /\ left' = 0
    /\ stack' = <<Frame("set", d, key, value)>>
    /\ parked' = <<Frame("set", d, key, value)>>
    /\ phase' = "running"
    /\ invoked' = << >>
    /\ UNCHANGED <<tbl, ret, hist, args, out>>

\* the scheduler lets the parked goroutine run, between any two steps of the
\* running one or after its return
Yield ==
  /\ phase # "crashed"
  /\ parked # << >>
  /\ stack' = parked
  /\ parked' = stack
  /\ phase' = "running"
  /\ UNCHANGED <<tbl, ret, hist, invoked, left, args, out>>

\* a helper called on its own: calculateDistance on the pairs of args
Measure ==
  /\ out = << >>
  /\ Len(args) = 4
  /\ out' = <<calculateDistance(args[1], args[2]),
              calculateDistance(args[2], args[1]),
              calculateDistance(args[3], args[4]),
              calculateDistance(args[1], args[1])>>
  /\ UNCHANGED <<tbl, stack, phase, ret, hist, invoked, left, args, parked>>

\* the places of a table: <<bucket, index>>
Places(buckets) ==
  UNION {{<<b, n>> : n \in 1..Len(buckets[b])} : b \in 1..Len(buckets)}

\* the table with the nodes at the places x and y exchanged
Exchange(buckets, x, y) ==
  [b \in DOMAIN buckets |->
     [n \in DOMAIN buckets[b] |->
        IF <<b, n>> = x THEN buckets[y[1]][y[2]]
        ELSE IF <<b, n>> = y THEN buckets[x[1]][x[2]]
        ELSE buckets[b][n]]]

\* the tables that differ from this one by the exchange of two nodes that
\* are equally distant from key
Reordered(buckets, key) ==
  {Exchange(buckets, x, y) :
     <<x, y>> \in {xy \in Places(buckets) \X Places(buckets) :
       calculateDistance(PeerId[buckets[xy[1][1]][xy[1][2]]], key)
         = calculateDistance(PeerId[buckets[xy[2][1]][xy[2][2]]], key)}}

\* helpers called on their own, on the dht of peer 1: findNearestNodes(args[1]),
\* findOwnNode(), and findNearestNodes(args[1]) on each reordered table
Select ==
  /\ out = << >>
  /\ Len(args) = 1
  /\ out' = <<findNearestNodes(tbl[1], args[1]), findOwnNode(tbl[1]),
              {findNearestNodes(t, args[1]) : t \in Reordered(tbl[1], args[1])}>>
  /\ UNCHANGED <<tbl, stack, phase, ret, hist, invoked, left, args, parked>>

(***************************************************************************)
(* Initial states and specifications                                       *)
(***************************************************************************)
SeqsUpTo(S, n) == UNION {[1..k -> S] : k \in 0..n}

\* the tables of at most MaxBuckets buckets of at most MaxBucketLen nodes
Tables == SeqsUpTo(SeqsUpTo(Peers, MaxBucketLen), MaxBuckets)

RECURSIVE SumLen(_)
SumLen(buckets) ==
  IF buckets = << >> THEN 0 ELSE Len(Head(buckets)) + SumLen(Tail(buckets))

\* the tables over the nodes S that hold at most MaxBucketLen nodes in all
LinkTables(S) ==
  {t \in SeqsUpTo(SeqsUpTo(S, MaxBucketLen), MaxBuckets) :
     SumLen(t) <= MaxBucketLen}

\* two linked peers with tables over each other; the other tables are as
\* NewDHT leaves them
LinkedOverlays ==
  {[x \in Peers |-> IF x = p THEN tp ELSE IF x = q THEN tq ELSE NewDHT] :
     <<p, q, tp, tq>> \in
       UNION {{p} \X {q} \X LinkTables({p, q}) \X LinkTables({p, q}) :
              <<p, q>> \in {pq \in LinkPeers \X LinkPeers : pq[1] < pq[2]}}}

\* one peer with a table over the two other peers; the other tables are as
\* NewDHT leaves them
StarOverlays ==
  {[x \in Peers |-> IF x = p THEN tp ELSE NewDHT] :
     <<p, tp>> \in UNION {{p} \X LinkTables(LinkPeers \ {p}) : p \in LinkPeers}}

Quiet ==
  /\ parked = << >>
  /\ stack = << >>
  /\ phase = "idle"
  /\ ret = EmptyStr
  /\ hist = << >>
  /\ invoked = << >>

\* setValue and getValue on two linked peers, or on a peer that lists two
\* others
Init ==
  /\ tbl \in LinkedOverlays \cup StarOverlays
  /\ Quiet
  /\ left = MaxOps
  /\ args = << >>
  /\ out = << >>

Next ==
  \/ ClientCall
  \/ setValueEnter
  \/ setValueForward
  \/ getValueEnter
  \/ getValueForward

Spec == Init /\ [][Next]_vars

\* lines 149-172: every dht of main comes from NewDHT and gets no bucket
InitMain ==
  /\ tbl = [p \in Peers |-> NewDHT]
  /\ Quiet
  /\ left = MaxDriverOps
  /\ args = << >>
  /\ out = << >>

NextMain ==
  \/ DriverCall
  \/ setValueEnter
  \/ getValueEnter

SpecMain == InitMain /\ [][NextMain]_vars

\* two interleaved setValue calls on a peer that lists two others
InitConc ==
  /\ tbl \in StarOverlays
  /\ Quiet
  /\ left = 2
  /\ args = << >>
  /\ out = << >>

NextConc ==
  \/ Spawn
  \/ Yield
  \/ setValueEnter
  \/ setValueForward

SpecConc == InitConc /\ [][NextConc]_vars

\* calculateDistance on its own
InitDist ==
  /\ tbl = [p \in Peers |-> NewDHT]
  /\ Quiet
  /\ left = 0
  /\ args \in Ids \X Ids \X Ids \X Ids
  /\ out = << >>

NextDist == Measure

SpecDist == InitDist /\ [][NextDist]_vars

\* findNearestNodes on its own, on any table of peer 1
InitSel ==
  /\ \E t \in Tables : tbl = [p \in Peers |-> IF p = 1 THEN t ELSE NewDHT]
  /\ Quiet
  /\ left = 0
  /\ args \in {<<k>> : k \in Ids}
  /\ out = << >>

NextSel == Select

SpecSel == InitSel /\ [][NextSel]_vars

(***************************************************************************)
(* Vocabulary of the properties                                            *)
(***************************************************************************)
\* the outermost call that is running or has crashed
Outer == stack[1]

Busy == stack # << >>

ValidKey(key) == key = hashValue(key)

\* no table of any peer holds a peer with this id
HeldNowhere(key) == \A p \in Peers : ~containsKey(tbl[p], key)

\* the number of entries of a table whose id is key
Records(buckets, key) ==
  Cardinality({n \in 1..Len(allNodes(buckets)) :
                 PeerId[allNodes(buckets)[n]] = key})

\* Distance of the identifier space: the XOR over the full width, unsigned
Distance(a, b) == Strip(BigXor(a, b))

\* the elements of a sequence
Range(f) == {f[i] : i \in DOMAIN f}

\* a and b list themselves first and each other too
CyclicPair(a, b) ==
  /\ a # b
  /\ findOwnNode(tbl[a]) = a
  /\ findOwnNode(tbl[b]) = b
  /\ b \in Range(allNodes(tbl[a]))
  /\ a \in Range(allNodes(tbl[b]))

\* every getValue that returns, returns the empty string
GetReturnsEmpty ==
  \A i \in 1..Len(hist) : hist[i].op = "get" => hist[i].res = EmptyStr

\* a crash happens only with a dht entered twice on the stack
CrashIsLoop ==
  phase = "crashed" =>
    \E i, j \in 1..Len(stack) : i < j /\ stack[i].d = stack[j].d

(***************************************************************************)
(* C1: on two peers that list themselves first and each other, getValue    *)
(* of a key that no table holds, called on the first, returns, and returns *)
(* the empty string: it does not recurse without end.                      *)
(***************************************************************************)
C1_RetrieveTerminates ==
  \A a, b \in Peers :
    /\ CyclicPair(a, b)
    /\ Busy
    /\ Outer.op = "get"
    /\ Outer.d = a
    /\ HeldNowhere(Outer.key)
    => phase # "crashed"

(***************************************************************************)
(* C2: when setValue(key, value) with key = Hash(key) returned true on a   *)
(* dht that has an own node, the getValue(key) that follows on the same    *)
(* dht returns exactly value.                                              *)
(***************************************************************************)
Stored1 ==
  /\ Len(hist) >= 1
  /\ hist[1].op = "set"
  /\ hist[1].res = TRUE
  /\ ValidKey(hist[1].key)

C2_RetrieveAfterStore ==
  (Stored1 /\ findOwnNode(tbl[hist[1].d]) # Nil) =>
    /\ (Busy /\ Outer.op = "get") => phase # "crashed"
    /\ (Len(hist) >= 2 /\ hist[2].op = "get") => hist[2].res = hist[1].value

(***************************************************************************)
(* C3: setValue(key, value) with key = Hash(key), called twice in a row on *)
(* a dht, returns true both times, and the dht then holds exactly one      *)
(* record for key.                                                         *)
(***************************************************************************)
C3_StoreIdempotent ==
  /\ (Busy /\ Outer.op = "set" /\ ValidKey(Outer.key)
        /\ \A i \in 1..Len(hist) : hist[i].op = "set")
       => phase # "crashed"
  /\ (Len(hist) = 2 /\ hist[1].op = "set" /\ hist[2].op = "set"
        /\ hist[1].value = hist[2].value /\ ValidKey(hist[1].key))
       => /\ hist[1].res = TRUE
          /\ hist[2].res = TRUE
          /\ Records(tbl[hist[1].d], hist[1].key) = 1

(***************************************************************************)
(* C4: setValue with a key that differs from its hash returns false in its *)
(* first step, calls setValue on no dht and leaves every table as it was.  *)
(***************************************************************************)
C4_IntegrityRejection ==
  [][(/\ phase = "running"
      /\ Len(stack) = 1
      /\ top.op = "set"
      /\ top.pc = "entry"
      /\ ~ValidKey(top.key))
     => (/\ phase' = "idle"
         /\ stack' = << >>
         /\ Len(hist') = Len(hist) + 1
         /\ hist'[Len(hist')].op = "set"
         /\ hist'[Len(hist')].res = FALSE
         /\ hist'[Len(hist')].calls = << >>
         /\ tbl' = tbl)]_vars

\* a setValue with a key that is not its own hash has been rejected on a dht
\* that has an own node
C4_Witness ==
  \E i \in 1..Len(hist) :
    /\ hist[i].op = "set"
    /\ ~ValidKey(hist[i].key)
    /\ hist[i].res = FALSE
    /\ findOwnNode(tbl[hist[i].d]) # Nil

(***************************************************************************)
(* C5: findNearestNodes returns at most 2 peers, and none of them is       *)
(* farther from the target, by the full-width Distance, than the own node  *)
(* of the table.                                                           *)
(***************************************************************************)
C5_FanoutAndNoFarther ==
  out # << >> =>
    /\ Len(out[1]) <= 2
    /\ \A n \in 1..Len(out[1]) :
         NatLeq(Distance(PeerId[out[1][n]], args[1]),
                Distance(PeerId[findOwnNode(tbl[1])], args[1]))

(***************************************************************************)
(* C6: calculateDistance(a, b) is the XOR of a and b over the full width   *)
(* read as an unsigned number: it is never negative, and comparing two     *)
(* results is comparing the two full-width XOR values.                     *)
(***************************************************************************)
C6_NoNarrowing ==
  out # << >> =>
    /\ ~WordNeg(out[1])
    /\ Strip(out[1]) = Distance(args[1], args[2])
    /\ WordLess(out[1], out[3])
         <=> NatLess(Distance(args[1], args[2]), Distance(args[3], args[4]))

(***************************************************************************)
(* C7: calculateDistance(a, b) = calculateDistance(b, a), and              *)
(* calculateDistance(a, a) = 0.                                            *)
(***************************************************************************)
C7_SymmetryIdentity ==
  out # << >> =>
    /\ out[1] = out[2]
    /\ out[4] = WordZero

\* the distance of two identifiers of different widths has been taken both
\* ways round and is not zero
C7_Witness ==
  /\ out # << >>
  /\ Len(args[1]) # Len(args[2])
  /\ out[1] # WordZero
  /\ out[2] # WordZero

(***************************************************************************)
(* C8: on a table with an own node, findNearestNodes returns the first     *)
(* min(2, n) of the n peers that remain when all peers of all buckets are  *)
(* sorted by (Distance to the target, id) and those farther than the own   *)
(* node are dropped.                                                       *)
(***************************************************************************)
RefLess(p1, p2, key) ==
  LET d1 == Distance(PeerId[p1], key)
      d2 == Distance(PeerId[p2], key)
  IN NatLess(d1, d2) \/ (d1 = d2 /\ StrLess(PeerId[p1], PeerId[p2]))

\* the sequence without its m-th element
Without(nodes, m) ==
  SubSeq(nodes, 1, m - 1) \o SubSeq(nodes, m + 1, Len(nodes))

\* selection sort: the first least element, then the rest sorted
RECURSIVE RefSorted(_, _)
RefSorted(nodes, key) ==
  IF nodes = << >> THEN << >>
  ELSE LET m == CHOOSE i \in 1..Len(nodes) :
                  /\ \A j \in 1..Len(nodes) : ~RefLess(nodes[j], nodes[i], key)
                  /\ \A j \in 1..(i - 1) : RefLess(nodes[i], nodes[j], key)
                                           \/ RefLess(nodes[j], nodes[i], key)
       IN <<nodes[m]>> \o RefSorted(Without(nodes, m), key)

RefKept(nodes, key, self) ==
  SelectSeq(nodes, LAMBDA p : NatLeq(Distance(PeerId[p], key),
                                     Distance(PeerId[self], key)))

C8_SelectorReference ==
  (out # << >> /\ findOwnNode(tbl[1]) # Nil) =>
    LET kept == RefKept(RefSorted(allNodes(tbl[1]), args[1]), args[1],
                        findOwnNode(tbl[1]))
    IN out[1] = SubSeq(kept, 1, min(2, Len(kept)))

\* the scenario of the specification: A(0f) with B(05) and C(0a), target 00
ExampleBC ==
  (out # << >> /\ allNodes(tbl[1]) = <<1, 2, 3>> /\ args[1] = Id00)
    => out[1] = <<2, 3>>

\* on identifiers that fit a word without its sign bit, the result is the
\* reference
NarrowIds == {Id0F, Id05, Id0A, Id00}

SelectorReferenceNarrow ==
  (/\ out # << >>
   /\ findOwnNode(tbl[1]) # Nil
   /\ args[1] \in NarrowIds
   /\ \A p \in Range(allNodes(tbl[1])) : PeerId[p] \in NarrowIds)
  => LET kept == RefKept(RefSorted(allNodes(tbl[1]), args[1]), args[1],
                         findOwnNode(tbl[1]))
     IN out[1] = SubSeq(kept, 1, min(2, Len(kept)))

(***************************************************************************)
(* C9: setValue with a key that is its own hash and that no table holds    *)
(* returns, whatever tables list each other or themselves.                 *)
(***************************************************************************)
C9_StoreTerminates ==
  (/\ Busy
   /\ Outer.op = "set"
   /\ ValidKey(Outer.key)
   /\ HeldNowhere(Outer.key))
  => phase # "crashed"

(***************************************************************************)
(* C10: getValue of a key that was stored with the empty string as its     *)
(* value does not return what getValue returns for a key that no peer      *)
(* holds.                                                                  *)
(***************************************************************************)
\* a setValue(key, value) returned true on some dht before the i-th call
StoredBefore(i, key, value) ==
  \E s \in 1..(i - 1) :
    /\ hist[s].op = "set"
    /\ hist[s].key = key
    /\ hist[s].value = value
    /\ hist[s].res = TRUE

C10_NotFoundDistinct ==
  \A i, j \in 1..Len(hist) :
    (/\ hist[i].op = "get"
     /\ hist[j].op = "get"
     /\ StoredBefore(i, hist[i].key, EmptyStr)
     /\ \A v \in Values : ~StoredBefore(j, hist[j].key, v)
     /\ HeldNowhere(hist[j].key))
    => hist[i].res # hist[j].res

(***************************************************************************)
(* C11: findOwnNode returns the first entry of the first non-empty bucket, *)
(* and nil only when every bucket is empty.                                *)
(***************************************************************************)
C11_SelfFirstNonEmpty ==
  out # << >> =>
    /\ allNodes(tbl[1]) # << >> => out[2] = allNodes(tbl[1])[1]
    /\ allNodes(tbl[1]) = << >> => out[2] = Nil

\* C11 as amended: findOwnNode returns the first entry of the first bucket,
\* and nil exactly when there is no bucket or the first bucket is empty,
\* whatever the later buckets hold.
C11_SelfFirstBucket ==
  out # << >> =>
    /\ (tbl[1] # << >> /\ tbl[1][1] # << >>) => out[2] = Head(Head(tbl[1]))
    /\ out[2] = Nil <=> (tbl[1] = << >> \/ Head(tbl[1]) = << >>)

\* findOwnNode has returned nil on a table whose first bucket is empty and
\* whose second bucket is not
C11_Witness ==
  /\ out # << >>
  /\ Len(tbl[1]) = 2
  /\ tbl[1][1] = << >>
  /\ tbl[1][2] # << >>
  /\ out[2] = Nil

NoRepeat(s) == \A i, j \in 1..Len(s) : i # j => s[i] # s[j]

C13_VisitOnce ==
  /\ Busy => NoRepeat(<<Outer.d>> \o invoked)
  /\ \A i \in 1..Len(hist) : NoRepeat(<<hist[i].d>> \o hist[i].calls)

(***************************************************************************)
(* C14: when the call on a dht X calls the operation on a dht Y, the own   *)
(* node of Y is no farther from the key, by the full-width Distance, than  *)
(* the own node of X.                                                      *)
(***************************************************************************)
C14_NoFartherHop ==
  \A i \in 1..(Len(stack) - 1) :
    LET x == findOwnNode(tbl[stack[i].d])
        y == findOwnNode(tbl[stack[i + 1].d])
    IN (x # Nil /\ y # Nil) =>
         NatLeq(Distance(PeerId[y], stack[i].key),
                Distance(PeerId[x], stack[i].key))

\* the same on overlays where the own node of every table with an own node
\* is the peer that holds the table
OwnIsOwner ==
  \A p \in Peers : findOwnNode(tbl[p]) \in {Nil, p}

NoFartherHopOwned == OwnIsOwner => C14_NoFartherHop

\* and with the int of calculateDistance in the place of Distance
NoFartherHopNarrowed ==
  OwnIsOwner =>
    \A i \in 1..(Len(stack) - 1) :
      LET x == findOwnNode(tbl[stack[i].d])
          y == findOwnNode(tbl[stack[i + 1].d])
      IN (x # Nil /\ y # Nil) =>
           WordLeq(calculateDistance(PeerId[y], stack[i].key),
                   calculateDistance(PeerId[x], stack[i].key))

(***************************************************************************)
(* C15: setValue with a key that is its own hash, on a dht whose own       *)
(* node's table holds the key, returns true in its first step, calls       *)
(* setValue on no dht and leaves every table as it was.                    *)
(***************************************************************************)
\* the key of the top frame is held by the table of its own node
HeldAtOwn ==
  /\ findOwnNode(tbl[top.d]) # Nil
  /\ containsKey(tbl[findOwnNode(tbl[top.d])], top.key)

C15_AlreadyPresent ==
  [][(/\ phase = "running"
      /\ top.op = "set"
      /\ top.pc = "entry"
      /\ ValidKey(top.key)
      /\ HeldAtOwn)
     => (/\ stack' = SubSeq(stack, 1, Len(stack) - 1)
         /\ invoked' = invoked
         /\ tbl' = tbl
         /\ phase' # "crashed"
         /\ Len(stack) = 1 =>
              /\ Len(hist') = Len(hist) + 1
              /\ hist'[Len(hist')].op = "set"
              /\ hist'[Len(hist')].res = TRUE
              /\ hist'[Len(hist')].calls = << >>)]_vars

\* a setValue has returned true without a nested call on a dht whose own
\* node is another peer, and that peer's table holds the key
C15_Witness ==
  \E i \in 1..Len(hist) :
    LET own == findOwnNode(tbl[hist[i].d])
    IN /\ hist[i].op = "set"
       /\ ValidKey(hist[i].key)
       /\ hist[i].res = TRUE
       /\ hist[i].calls = << >>
       /\ own # Nil
       /\ own # hist[i].d
       /\ containsKey(tbl[own], hist[i].key)
       /\ ~containsKey(tbl[hist[i].d], hist[i].key)

(***************************************************************************)
(* C16: getValue of a key that the own node's table does not hold calls    *)
(* getValue on the peers of findNearestNodes in their order, returns the   *)
(* first result that is not the empty string without calling a later peer, *)
(* and returns the empty string when every peer returned it.               *)
(***************************************************************************)
\* the top frame returns r in this step
Returns(r) ==
  /\ stack' = SubSeq(stack, 1, Len(stack) - 1)
  /\ ret' = r
  /\ invoked' = invoked
  /\ Len(stack) = 1 => hist'[Len(hist')].res = r

\* the top frame calls getValue on the k-th of the peers ns in this step
\* (or the stack overflows)
CallsNext(ns, k) ==
  IF Len(stack) >= StackLimit THEN phase' = "crashed"
  ELSE /\ Len(stack') = Len(stack) + 1
       /\ stack'[Len(stack')] = Frame("get", ns[k], top.key, top.value)
       /\ stack'[Len(stack)].nodes = ns
       /\ stack'[Len(stack)].i = k
       /\ invoked' = Append(invoked, ns[k])

C16_CandidatesInOrder ==
  [][/\ (/\ phase = "running"
         /\ top.op = "get"
         /\ top.pc = "entry"
         /\ ~HeldAtOwn)
        => LET ns == findNearestNodes(tbl[top.d], top.key)
           IN IF ns = << >> THEN Returns(EmptyStr) ELSE CallsNext(ns, 1)
     /\ (/\ phase = "running"
         /\ top.op = "get"
         /\ top.pc = "loop")
        => /\ top.nodes = findNearestNodes(tbl[top.d], top.key)
           /\ IF ret # EmptyStr THEN Returns(ret)
              ELSE IF top.i < Len(top.nodes)
                   THEN CallsNext(top.nodes, top.i + 1)
                   ELSE Returns(EmptyStr)]_vars

\* a getValue has called two different peers in the order of
\* findNearestNodes, both returned the empty string, and so did it
C16_Witness ==
  \E i \in 1..Len(hist) :
    /\ hist[i].op = "get"
    /\ hist[i].calls = findNearestNodes(tbl[hist[i].d], hist[i].key)
    /\ Len(hist[i].calls) = 2
    /\ hist[i].calls[1] # hist[i].calls[2]
    /\ hist[i].res = EmptyStr

(***************************************************************************)
(* C17: every setValue with a key that is its own hash returns true,       *)
(* whatever nested calls it made and whatever they returned.               *)
(***************************************************************************)
C17_StoredRegardless ==
  \A i \in 1..Len(hist) :
    (hist[i].op = "set" /\ ValidKey(hist[i].key)) => hist[i].res = TRUE

\* a setValue has returned true after nested calls
C17_Witness ==
  \E i \in 1..Len(hist) :
    /\ hist[i].op = "set"
    /\ ValidKey(hist[i].key)
    /\ hist[i].calls # << >>
    /\ hist[i].res = TRUE

(***************************************************************************)
(* C18: when two setValue calls with the same key, a key that is its own   *)
(* hash, run interleaved on the same dht, the dht holds exactly one record *)
(* for the key once both have returned, in every interleaving.             *)
(***************************************************************************)
C18_ConcurrentStores ==
  (/\ Len(hist) = 2
   /\ stack = << >>
   /\ parked = << >>)
  => Records(tbl[hist[1].d], hist[1].key) = 1

\* both calls returned true and the table has no entry for the key
BothStoredNoRecord ==
  /\ Len(hist) = 2
  /\ hist[1].res = TRUE
  /\ hist[2].res = TRUE
  /\ Records(tbl[hist[1].d], hist[1].key) = 0

(***************************************************************************)
(* C19: no step of setValue or getValue changes the buckets of any table,  *)
(* so after any sequence of calls every table, and with it containsKey on  *)
(* every table, is what it was before.                                     *)
(***************************************************************************)
C19_NoWrites == [][tbl' = tbl]_vars

\* a setValue and then a getValue have returned, both after nested calls, on
\* a dht whose table holds two nodes
C19_Witness ==
  /\ Len(hist) = 2
  /\ hist[1].op = "set"
  /\ hist[1].res = TRUE
  /\ hist[1].calls # << >>
  /\ hist[2].op = "get"
  /\ hist[2].calls # << >>
  /\ Len(allNodes(tbl[hist[1].d])) = 2

(***************************************************************************)
(* C20: on a table with no buckets or with an empty first bucket,          *)
(* findNearestNodes returns the empty list for every target, a getValue    *)
(* returns the empty string and a setValue invokes no other peer: a call   *)
(* on such a table is never below another call on the stack, and a         *)
(* finished one has made no nested call.                                   *)
(***************************************************************************)
EmptyView(buckets) == Len(buckets) = 0 \/ Len(buckets[1]) = 0

C20_EmptyView ==
  /\ \A p \in Peers : EmptyView(tbl[p]) =>
       \A key \in Ids \cup {IdDigest} : findNearestNodes(tbl[p], key) = << >>
  /\ \A i \in 1..Len(stack) : EmptyView(tbl[stack[i].d]) => i = Len(stack)
  /\ \A i \in 1..Len(hist) : EmptyView(tbl[hist[i].d]) =>
       /\ hist[i].calls = << >>
       /\ hist[i].op = "get" => hist[i].res = EmptyStr

\* a setValue and a getValue have returned on a dht whose first bucket is
\* empty and whose second bucket holds a node
C20_Witness ==
  /\ Len(hist) = 2
  /\ hist[1].op = "set"
  /\ hist[1].res = TRUE
  /\ hist[2].op = "get"
  /\ Len(tbl[hist[1].d]) = 2
  /\ tbl[hist[1].d][1] = << >>
  /\ tbl[hist[1].d][2] # << >>

\* lines 149-172: every dht of main is in this state at every point of the run
EmptyViewMain == \A p \in Peers : tbl[p] = NewDHT /\ EmptyView(tbl[p])

====
